---- MODULE Spec2Model ----
(***************************************************************************)
(* A model of core/downloader.py: the endpoint rotator and the resilient   *)
(* fetcher (fetch_with_retry), the file transfer worker (download_worker), *)
(* the job orchestrator (process_download_job, process_bulk_download_job). *)
(*                                                                         *)
(* Scheduling is asyncio's: one event loop, a task runs from one await to  *)
(* the next without interruption.  Every action below is one such run.     *)
(***************************************************************************)
EXTENDS Integers, Sequences, FiniteSets, TLC

\* ------------------------------------------------------------------ bounds

\* Largest max_retries argument a client passes.
MaxAttemptsArg == 4
\* Works of a batch, and transfer workers of one work.
MaxWorks == 2
MaxFiles == 2
\* Largest file size (expected, on the server, on disk at the start), in bytes.
MaxSize == 3
\* Invocations of the transfer on one entry.
MaxRuns == 2
\* Failures the API and the file system inject in one batch run.
MaxFaults == 1
\* Largest max_concurrent_downloads of the configuration.
MaxConcurrent == 2
\* Largest index_start the flattener is called with.
MaxStart == 2

\* --------------------------------------------------------- program constants

\* max_retries=4, the default of fetch_with_retry.
DefaultMaxRetries == 4
\* chunk_size = 8192, scaled to the sizes of the model: bytes per chunk.
chunk_size == 1
\* "if update_counter % 50 == 0"
ProgressEvery == 50

BASE_URLS_INIT ==
  << "https://api.asmr.one", "https://api.asmr-100.com",
     "https://api.asmr-200.com", "https://api.asmr-300.com" >>

\* A JSON value the API answers with: one record shape for all of them, so
\* that any two can be compared.  kind "None" is Python's None, the failure
\* sentinel of fetch_with_retry.
TheTitle == << "T" >>
Json(kind, hasTitle, tree) ==
  [kind |-> kind, hasTitle |-> hasTitle, tree |-> tree,
   title |-> IF hasTitle THEN TheTitle ELSE << >>]
Null == Json("None", FALSE, << >>)

\* The client tasks that call fetch_with_retry concurrently (two handlers of
\* the host running at once).
Clients == {1, 2}
\* Task 0 is the orchestrator task (the batch or the single job).
Orch == 0
Callers == Clients \cup {Orch}

Paths == {"workInfo", "tracks", "search"}

\* Job j is the j-th call of process_download_job; its k-th transfer worker
\* is the task << j, k >>.
Jobs == 1 .. MaxWorks
Workers == Jobs \X (1 .. MaxFiles)

VARIABLES
  API_INDEX,   \* the process-wide index of the endpoint in use
  BASE_URLS,   \* the endpoint list
  fetch,       \* fetch[c]: the fetch_with_retry call of task c
  faultBudget, \* failures the environment may still inject: .api failing
               \* answers of the API, .io failures of the file system, of a
               \* download or of a callback (-1: no limit)
  worker,      \* worker[w]: the download_worker task w
  sem,         \* sem[j]: the value of the semaphore of job j
  sessClosed,  \* sessClosed[j]: the ClientSession of job j has been closed
  disk,        \* the files on disk: path -> size
  dirs,        \* the directories on disk
  orch,        \* the orchestrator task: process_bulk_download_job and the
               \* process_download_job and get_work_info_async calls it makes
  config       \* the configuration load_config() returns

netVars == << API_INDEX, BASE_URLS >>
ctlVars == << orch, config >>
dlVars == << worker, sem, sessClosed, disk, dirs, orch, config >>
vars == << API_INDEX, BASE_URLS, fetch, faultBudget, worker, sem, sessClosed,
           disk, dirs, orch, config >>

\* ------------------------------------------------------------------ strings

\* A Python str is a sequence of one-character strings.
UpperChars == << "A", "B", "C", "D", "E", "F", "G", "H", "I", "J", "K", "L", "M",
                 "N", "O", "P", "Q", "R", "S", "T", "U", "V", "W", "X", "Y", "Z" >>
LowerChars == << "a", "b", "c", "d", "e", "f", "g", "h", "i", "j", "k", "l", "m",
                 "n", "o", "p", "q", "r", "s", "t", "u", "v", "w", "x", "y", "z" >>

LowerChar(ch) ==
  IF \E i \in 1 .. 26 : UpperChars[i] = ch
  THEN LowerChars[CHOOSE i \in 1 .. 26 : UpperChars[i] = ch] ELSE ch
UpperChar(ch) ==
  IF \E i \in 1 .. 26 : LowerChars[i] = ch
  THEN UpperChars[CHOOSE i \in 1 .. 26 : LowerChars[i] = ch] ELSE ch

\* str.lower(), str.upper()
Lower(str) == [i \in 1 .. Len(str) |-> LowerChar(str[i])]
Upper(str) == [i \in 1 .. Len(str) |-> UpperChar(str[i])]

\* str.endswith(suffix)
EndsWith(str, suffix) ==
  /\ Len(suffix) <= Len(str)
  /\ SubSeq(str, Len(str) - Len(suffix) + 1, Len(str)) = suffix

\* A faulty variant: only the innermost folder is kept.
JoinLast(parts, sep) == IF parts = << >> THEN << >> ELSE parts[Len(parts)]

\* sep.join(parts)
RECURSIVE Join(_, _)
Join(parts, sep) ==
  IF parts = << >> THEN << >>
  ELSE IF Len(parts) = 1 THEN parts[1]
  ELSE parts[1] \o sep \o Join(Tail(parts), sep)

\* str.strip(): leading and trailing blanks removed.
RECURSIVE LStrip(_)
LStrip(str) ==
  IF str # << >> /\ Head(str) = " " THEN LStrip(Tail(str)) ELSE str
RECURSIVE RStrip(_)
RStrip(str) ==
  IF str # << >> /\ str[Len(str)] = " "
  THEN RStrip(SubSeq(str, 1, Len(str) - 1)) ELSE str
Strip(str) == RStrip(LStrip(str))

\* str.replace("..", "_"): leftmost non-overlapping occurrences.
RECURSIVE ReplaceDotDot(_)
ReplaceDotDot(str) ==
  IF Len(str) < 2 THEN str
  ELSE IF str[1] = "." /\ str[2] = "."
       THEN << "_" >> \o ReplaceDotDot(SubSeq(str, 3, Len(str)))
       ELSE << str[1] >> \o ReplaceDotDot(Tail(str))

\* str.replace(old, new): leftmost non-overlapping occurrences, old not empty.
RECURSIVE Replace(_, _, _)
Replace(str, old, new) ==
  IF Len(str) < Len(old) THEN str
  ELSE IF SubSeq(str, 1, Len(old)) = old
       THEN new \o Replace(SubSeq(str, Len(old) + 1, Len(str)), old, new)
       ELSE << str[1] >> \o Replace(Tail(str), old, new)

\* The characters of the class [\\/:*?"<>|].
IllegalChars == { "\\", "/", ":", "*", "?", "\"", "<", ">", "|" }

\* sanitize_filename of download_worker.
sanitize_filename(name) ==
  LET subbed   == [i \in 1 .. Len(name) |->
                     IF name[i] \in IllegalChars THEN " " ELSE name[i]]
      stripped == Strip(subbed)
      nodots   == ReplaceDotDot(stripped)
  IN  [i \in 1 .. Len(nodots) |-> IF nodots[i] = "." THEN " " ELSE nodots[i]]

\* full_path = base_dir / safe_folder_path / safe_file_name, as the triple of
\* the work's directory name (rj_id.upper(), under the output root), the
\* folder part and the file name.  Path("") is ".", the base directory.  The
\* folder part is the sanitized string, levels separated by "/":
\* .replace("/", os.sep) of line 263 acts after sanitize_filename.
full_path(rj_id, file_info) ==
  << Upper(rj_id), sanitize_filename(file_info.folder_path),
     sanitize_filename(file_info.filename) >>

\* full_path.parent and base_dir, as directories.
ParentDir(path) == << path[1], path[2] >>
BaseDir(rj_id) == << Upper(rj_id), << >> >>

\* ------------------------------------------------------------ tree flattener

\* A node of the tracks tree.  type "" is a missing type; size 0 is also a
\* missing size, read as item.get("size", 0); url is the file behind
\* mediaDownloadUrl, given by its length in bytes on the server.
Node(type, title, size, url, hasChildren, children) ==
  [type |-> type, title |-> title, size |-> size, url |-> url,
   hasChildren |-> hasChildren, children |-> children]
FileNode(type, title, size) == Node(type, title, size, [len |-> size], FALSE, << >>)
FolderNode(title, children) == Node("folder", title, 0, [len |-> 0], TRUE, children)

HqSuffixes == { << ".", "f", "l", "a", "c" >>, << ".", "w", "a", "v" >>,
                << ".", "m", "p", "3" >> }
HqSizeLimit == 50 * 1024 * 1024

\* A faulty variant: the suffix is compared as it is written.
is_hq_case_sensitive(item_title) ==
  \E sfx \in HqSuffixes : EndsWith(item_title, sfx)

\* item_title.lower().endswith((".flac", ".wav", ".mp3"))
is_hq(item_title) == \E sfx \in HqSuffixes : EndsWith(Lower(item_title), sfx)

\* item.get("size", 0) > (50 * 1024 * 1024)
is_hq_by_size(item) == item.size > HqSizeLimit

\* A faulty variant: every entry gets the start index.
FileInfoSameIndex(index, item, folder_path) ==
  [index |-> 1, filename |-> item.title, url |-> item.url,
   type |-> item.type, size |-> item.size, folder_path |-> folder_path]

\* One file entry ("file_info"); size_formatted, a display string, is left out.
FileInfo(index, item, folder_path) ==
  [index |-> index, filename |-> item.title, url |-> item.url,
   type |-> item.type, size |-> item.size, folder_path |-> folder_path]

\* recursively_transform_data_v2: the accumulator all_files after the call
\* and the returned next index.
RECURSIVE recursively_transform_data_v2(_, _, _, _, _)
recursively_transform_data_v2(data, all_files, current_folder_path, index_start, cfg) ==
  IF data = << >> THEN [files |-> all_files, next |-> index_start]
  ELSE
    LET item == Head(data)
        after ==
          IF item.type = "folder"
          THEN IF item.hasChildren
               THEN recursively_transform_data_v2(
                      item.children, all_files,
                      Append(current_folder_path, item.title), index_start, cfg)
               ELSE [files |-> all_files, next |-> index_start]
          ELSE IF item.type \in cfg.default_file_types
          THEN IF cfg.hq_audio_only /\ item.type = "audio"
                  /\ ~(is_hq(item.title) \/ is_hq_by_size(item))
               THEN [files |-> all_files, next |-> index_start]
               ELSE [files |-> Append(all_files,
                                 FileInfo(index_start, item,
                                          Join(current_folder_path, << "/" >>))),
                     next |-> index_start + 1]
          ELSE [files |-> all_files, next |-> index_start]
    IN  recursively_transform_data_v2(Tail(data), after.files,
                                      current_folder_path, after.next, cfg)

\* The tracks trees the API answers with in the runs of the orchestrator.
TreeNone == << >>
TreeOne  == << FileNode("audio", << "a", ".", "m", "p", "3" >>, 1) >>
TreeTwo  == << FolderNode(<< "D", "1" >>,
                 << FileNode("audio", << "a", ".", "m", "p", "3" >>, 1) >>),
               FileNode("image", << "c", ".", "j", "p", "g" >>, 1) >>
Trees == { TreeNone, TreeOne, TreeTwo }

\* load_config(): the defaults.
DefaultConfig ==
  [hq_audio_only |-> FALSE, default_file_types |-> {"audio", "image", "text"},
   max_concurrent_downloads |-> 3, output_dir |-> "Downloads"]

\* ------------------------------------------------------------------ rotator

\* A faulty variant: "rotation" that drops the failing endpoint from the list.
rotate_api_drop(idx, urls) ==
  IF Len(urls) > 1
  THEN << IF idx >= Len(urls) - 1 THEN 0 ELSE idx,
          [i \in 1 .. Len(urls) - 1 |-> IF i <= idx THEN urls[i] ELSE urls[i + 1]] >>
  ELSE << idx, urls >>

\* rotate_api: the globals (API_INDEX, BASE_URLS) after the call.
rotate_api(idx, urls) == << (idx + 1) % Len(urls), urls >>

get_current_api(idx, urls) == urls[idx + 1]

\* ------------------------------------------------------------------ fetcher

\* JSON bodies the API may answer with, per request path.
Bodies(path) ==
  CASE path = "workInfo" -> { Json("dict", TRUE, << >>), Json("dict", FALSE, << >>) }
    [] path = "tracks"   -> { Json("list", FALSE, t) : t \in Trees }
    [] OTHER             -> { Json("dict", FALSE, << >>) }

IdleFetch ==
  [ pc |-> "idle", path |-> "search", max |-> 0, attempt |-> 0, api |-> "",
    result |-> Null,
    \* history of the call, for the properties: requests issued, failed
    \* attempts, rotations made, API_INDEX at the call (-1 once another
    \* fetch has run during the call or since its return), whether a 200
    \* has been received, whether a body has been parsed
    reqs |-> 0, fails |-> 0, rots |-> 0, idx0 |-> 0,
    had200 |-> FALSE, parsed |-> FALSE ]

Active(c) == fetch[c].pc \notin {"idle", "done"}

\* api_faults is history, for the properties: the number of attempts of
\* fetch_with_retry that have failed so far, modulo the number of endpoints.
\* healthy is the index of an endpoint that answers every request with a 200
\* and a body that parses, -1 when there is none.
Budget(api, io) == [api |-> api, io |-> io, api_faults |-> 0, healthy |-> -1]
ApiFaultAllowed(c) ==
  /\ faultBudget.api # 0
  /\ faultBudget.healthy >= 0 => fetch[c].api # BASE_URLS_INIT[faultBudget.healthy + 1]
SpendApiFault ==
  [faultBudget EXCEPT !.api = IF @ > 0 THEN @ - 1 ELSE @,
                      !.api_faults = (@ + 1) % Len(BASE_URLS_INIT)]
FaultAllowed == faultBudget.io # 0
SpendFault ==
  IF faultBudget.io > 0 THEN [faultBudget EXCEPT !.io = @ - 1] ELSE faultBudget

\* The head of the loop "for _ in range(max_retries)": the next request is
\* issued against the current endpoint, or the loop is over.
NextAttempt(f, idx, urls) ==
  IF f.attempt < f.max
  THEN [f EXCEPT !.pc = "get", !.attempt = @ + 1, !.reqs = @ + 1,
                 !.api = get_current_api(idx, urls)]
  ELSE [f EXCEPT !.pc = "logfail"]

\* A call of fetch_with_retry(session, path, max_retries = m) by task c, up
\* to its first await.
StartFetch(c, path, m) ==
  LET others == {d \in Callers \ {c} : Active(d)}
      seen   == {d \in Callers \ {c} : fetch[d].pc # "idle"}
      f0 == [IdleFetch EXCEPT !.path = path, !.max = m,
                              !.idx0 = IF others = {} THEN API_INDEX ELSE -1]
  IN  fetch' = [d \in Callers |->
                  IF d = c THEN NextAttempt(f0, API_INDEX, BASE_URLS)
                  ELSE IF d \in seen THEN [fetch[d] EXCEPT !.idx0 = -1]
                  ELSE fetch[d]]

FetchCall(c, path, m) ==
  /\ fetch[c].pc = "idle"
  /\ StartFetch(c, path, m)
  /\ UNCHANGED << API_INDEX, BASE_URLS, faultBudget, dlVars >>

\* session.get answers with "response.status == 200".
Resp200(c) ==
  /\ fetch[c].pc = "get"
  /\ fetch' = [fetch EXCEPT ![c].pc = "json", ![c].had200 = TRUE]
  /\ UNCHANGED << API_INDEX, BASE_URLS, faultBudget, dlVars >>

\* session.get answers with another status.
RespOther(c) ==
  /\ fetch[c].pc = "get"
  /\ ApiFaultAllowed(c)
  /\ fetch' = [fetch EXCEPT ![c].pc = "logstatus", ![c].fails = @ + 1]
  /\ faultBudget' = SpendApiFault
  /\ UNCHANGED << API_INDEX, BASE_URLS, dlVars >>

\* session.get raises (timeout, connection error).
RespError(c) ==
  /\ fetch[c].pc = "get"
  /\ ApiFaultAllowed(c)
  /\ fetch' = [fetch EXCEPT ![c].pc = "logerr", ![c].fails = @ + 1]
  /\ faultBudget' = SpendApiFault
  /\ UNCHANGED << API_INDEX, BASE_URLS, dlVars >>

\* A faulty variant: the endpoint is rotated after a success too.
JsonOkRotates(c) ==
  /\ fetch[c].pc = "json"
  /\ \E b \in Bodies(fetch[c].path) :
       fetch' = [fetch EXCEPT ![c].pc = "done", ![c].result = b,
                                 ![c].parsed = TRUE, ![c].rots = @ + 1]
  /\ API_INDEX' = rotate_api(API_INDEX, BASE_URLS)[1]
  /\ UNCHANGED << BASE_URLS, faultBudget, dlVars >>

\* "return await response.json()": the body parses and is returned.
JsonOk(c) ==
  /\ fetch[c].pc = "json"
  /\ \E b \in Bodies(fetch[c].path) :
       fetch' = [fetch EXCEPT ![c].pc = "done", ![c].result = b,
                                 ![c].parsed = TRUE]
  /\ UNCHANGED << API_INDEX, BASE_URLS, faultBudget, dlVars >>

\* response.json() raises (not JSON, wrong content type, body cut short):
\* the "except Exception" of the loop takes it.
JsonRaise(c) ==
  /\ fetch[c].pc = "json"
  /\ ApiFaultAllowed(c)
  /\ fetch' = [fetch EXCEPT ![c].pc = "logerr", ![c].fails = @ + 1]
  /\ faultBudget' = SpendApiFault
  /\ UNCHANGED << API_INDEX, BASE_URLS, dlVars >>

\* A faulty variant: the index is advanced from the endpoint the request
\* went to, read before the await of the log, and not from the current one.
LogStatusDoneStale(c) ==
  /\ fetch[c].pc = "logstatus"
  /\ LET used == CHOOSE i \in 1 .. Len(BASE_URLS) : BASE_URLS[i] = fetch[c].api
         idx  == used % Len(BASE_URLS)
     IN  /\ API_INDEX' = idx
         /\ fetch' = [fetch EXCEPT ![c] =
                        NextAttempt([@ EXCEPT !.rots = @ + 1], idx, BASE_URLS)]
  /\ UNCHANGED << BASE_URLS, faultBudget, dlVars >>

\* After the log of a non-200 status: rotate_api(), then the next iteration.
LogStatusDone(c) ==
  /\ fetch[c].pc = "logstatus"
  /\ LET g == rotate_api(API_INDEX, BASE_URLS)
     IN  /\ API_INDEX' = g[1]
         /\ BASE_URLS' = g[2]
         /\ fetch' = [fetch EXCEPT ![c] =
                        NextAttempt([@ EXCEPT !.rots = @ + 1], g[1], g[2])]
  /\ UNCHANGED << faultBudget, dlVars >>

\* A faulty variant: a raised error only sleeps, the endpoint stays.
LogErrDoneNoRotate(c) ==
  /\ fetch[c].pc = "logerr"
  /\ fetch' = [fetch EXCEPT ![c].pc = "sleep"]
  /\ UNCHANGED << API_INDEX, BASE_URLS, faultBudget, dlVars >>

\* After the log of a raised error: rotate_api(), then asyncio.sleep(1).
LogErrDone(c) ==
  /\ fetch[c].pc = "logerr"
  /\ LET g == rotate_api(API_INDEX, BASE_URLS)
     IN  /\ API_INDEX' = g[1]
         /\ BASE_URLS' = g[2]
         /\ fetch' = [fetch EXCEPT ![c].pc = "sleep", ![c].rots = @ + 1]
  /\ UNCHANGED << faultBudget, dlVars >>

\* The sleep is over: the next iteration.
SleepDone(c) ==
  /\ fetch[c].pc = "sleep"
  /\ fetch' = [fetch EXCEPT ![c] = NextAttempt(@, API_INDEX, BASE_URLS)]
  /\ UNCHANGED << API_INDEX, BASE_URLS, faultBudget, dlVars >>

\* After the log "All API attempts failed": return None.
LogFailDone(c) ==
  /\ fetch[c].pc = "logfail"
  /\ fetch' = [fetch EXCEPT ![c].pc = "done", ![c].result = Null]
  /\ UNCHANGED << API_INDEX, BASE_URLS, faultBudget, dlVars >>

FetchStep(c) ==
  \/ Resp200(c)
  \/ RespOther(c)
  \/ RespError(c)
  \/ JsonOk(c)
  \/ JsonRaise(c)
  \/ LogStatusDone(c)
  \/ LogErrDone(c)
  \/ SleepDone(c)
  \/ LogFailDone(c)

\* A client takes the value its call returned.
ClientReturn(c) ==
  /\ fetch[c].pc = "done"
  /\ fetch' = [fetch EXCEPT ![c] = IdleFetch]
  /\ UNCHANGED << API_INDEX, BASE_URLS, faultBudget, dlVars >>

ClientCall(c) ==
  \E m \in 0 .. MaxAttemptsArg : FetchCall(c, "search", m)

\* ---------------------------------------------------------- transfer worker

Min(a, b) == IF a < b THEN a ELSE b

NoEntry == FileInfo(0, FileNode("", << >>, 0), << >>)

\* No task.  reqs, cbs, size0, faulted, cb_raised, run, prev are the history of the
\* invocation, for the properties: download requests issued, the progress
\* callbacks made, the size on disk at the start (-1: no file), whether a
\* step of the invocation failed, the number of the invocation and what the
\* one before returned.
NoWorker ==
  [ pc |-> "none", rj_id |-> << >>, entry |-> NoEntry, path |-> << << >>, << >>, << >> >>,
    mode |-> "wb", range |-> -1, downloaded_size |-> 0, current_downloaded |-> 0,
    total_size |-> 0, update_counter |-> 0, left |-> 0, chunk |-> 0,
    holds |-> FALSE, pending |-> FALSE, ret |-> "none",
    reqs |-> 0, cbs |-> << >>, size0 |-> -1, status |-> 0, touched |-> FALSE,
    faulted |-> FALSE, cb_raised |-> FALSE, run |-> 0, prev |-> "none",
    \* the current_index that the batch's work_progress_callback has passed
    \* on with the last progress event of the task (0: none, or no batch)
    cb_index |-> 0 ]

\* The task download_worker(session, semaphore, f, base_dir, cb, rj_id), as
\* gather creates it, before its first step.
NewWorker(rj_id, f) ==
  [NoWorker EXCEPT !.pc = "new", !.rj_id = rj_id, !.entry = f,
                   !.path = full_path(rj_id, f), !.run = 1]

Running(w) == worker[w].pc \notin {"none", "done"}

Exists(path) == path \in DOMAIN disk
SizeOf(path) == IF Exists(path) THEN disk[path] ELSE -1
WriteFile(d, path, size) ==
  [q \in DOMAIN d \cup {path} |-> IF q = path THEN size ELSE d[q]]
Unlink(d, path) == [q \in DOMAIN d \ {path} |-> d[q]]

\* progress_callback(rj_id, file_name, downloaded, total); in a batch it is
\* work_progress_callback of lines 434-444, which reads current_index of
\* the loop of process_bulk_download_job when it is called.
Callback(wk, downloaded, total) ==
  [wk EXCEPT !.cbs = Append(@, << downloaded, total >>),
             !.cb_index = IF orch.caller = "batch" THEN orch.i ELSE 0]

\* The worker ends by raising: the exception leaves download_worker.
Raise(wk) ==
  [wk EXCEPT !.pc = "done", !.ret = "raised", !.faulted = TRUE]

\* The except clauses of lines 335-340: log, then "return False".
Fail(wk) == [wk EXCEPT !.pc = "log_end", !.pending = FALSE]

\* "async with semaphore:" and lines 294-304, when a permit is free: the
\* permit is taken and session.get is called (it raises at once on a closed
\* session); without a permit the task waits.
Enter(wk, j) ==
  IF sem[j].value > 0
  THEN IF sessClosed[j]
       THEN Fail([wk EXCEPT !.holds = TRUE])
       ELSE [wk EXCEPT !.pc = "get", !.holds = TRUE, !.reqs = @ + 1]
  ELSE [wk EXCEPT !.pc = "wait_sem"]
Take(wk, j) == IF wk.holds THEN [sem EXCEPT ![j].value = @ - 1] ELSE sem

StartOutcomes == {"ok", "mkdir_raises", "stat_raises", "unlink_raises"}

\* asyncio.Semaphore(n); limit keeps n, for the properties.
Semaphore(n) == [value |-> n, limit |-> n]

\* A faulty variant: a file of exactly the expected size is resumed too.
ResumableLoose(S, E) == S <= E

\* Line 281: "elif downloaded_size < expected_size".
Resumable(S, E) == S < E

\* Lines 247-290, the first step of the task, with outcome o.
StartResult(w, o) ==
  LET wk == worker[w]
      E  == wk.entry.size
      S  == SizeOf(wk.path)
      w0 == [wk EXCEPT !.size0 = S]
      made == dirs \cup {BaseDir(wk.rj_id), ParentDir(wk.path)}
  IN  IF o = "mkdir_raises"
      THEN [wk |-> Raise(w0), disk |-> disk, dirs |-> dirs]
      ELSE IF ~Exists(wk.path)
      THEN [wk |-> Enter(w0, w[1]), disk |-> disk, dirs |-> made]
      ELSE IF o = "stat_raises"
      THEN [wk |-> Raise(w0), disk |-> disk, dirs |-> made]
      ELSE IF E > 0 /\ S = E
      THEN [wk |-> [w0 EXCEPT !.pc = "log_skip", !.downloaded_size = S],
            disk |-> disk, dirs |-> made]
      ELSE IF Resumable(S, E)
      THEN [wk |-> [w0 EXCEPT !.pc = "log_resume", !.mode = "ab", !.range = S,
                              !.downloaded_size = S, !.current_downloaded = S],
            disk |-> disk, dirs |-> made]
      ELSE IF o = "unlink_raises"
      THEN [wk |-> Raise(w0), disk |-> disk, dirs |-> made]
      ELSE [wk |-> Enter([w0 EXCEPT !.touched = TRUE], w[1]),
            disk |-> Unlink(disk, wk.path), dirs |-> made]

\* An outcome is possible where the step it fails is reached.
StartPossible(w, o) ==
  LET wk == worker[w] IN
  CASE o = "stat_raises"   -> Exists(wk.path)
    [] o = "unlink_raises" ->
         /\ Exists(wk.path)
         /\ ~(wk.entry.size > 0 /\ disk[wk.path] = wk.entry.size)
         /\ ~(disk[wk.path] < wk.entry.size)
    [] OTHER -> TRUE

\* A faulty variant: a complete file is downloaded again.
WStartNoSkip(w) ==
  /\ worker[w].pc = "new"
  /\ LET wk == [worker[w] EXCEPT !.size0 = SizeOf(worker[w].path),
                                  !.touched = Exists(worker[w].path)]
         r  == Enter(wk, w[1])
     IN  /\ worker' = [worker EXCEPT ![w] = r]
         /\ sem' = Take(r, w[1])
         /\ disk' = IF Exists(wk.path) THEN Unlink(disk, wk.path) ELSE disk
         /\ dirs' = dirs \cup {BaseDir(wk.rj_id), ParentDir(wk.path)}
  /\ UNCHANGED << netVars, ctlVars, fetch, sessClosed, faultBudget >>

\* The first step of the task.
WStart(w) ==
  /\ worker[w].pc = "new"
  /\ \E o \in StartOutcomes :
       /\ StartPossible(w, o)
       /\ o # "ok" => FaultAllowed
       /\ LET r == StartResult(w, o)
          IN  /\ worker' = [worker EXCEPT ![w] = r.wk]
              /\ sem' = Take(r.wk, w[1])
              /\ disk' = r.disk
              /\ dirs' = r.dirs
       /\ faultBudget' = IF o = "ok" THEN faultBudget ELSE SpendFault
  /\ UNCHANGED << netVars, ctlVars, fetch, sessClosed >>

\* Lines 278-280: after the log, the progress callback (E, E), "return True".
WSkip(w) ==
  /\ worker[w].pc = "log_skip"
  /\ \E o \in {"ok", "callback_raises"} :
       /\ o # "ok" => FaultAllowed
       /\ LET wk == worker[w]
              cb == Callback(wk, wk.entry.size, wk.entry.size)
          IN  worker' = [worker EXCEPT ![w] =
                IF o = "ok" THEN [cb EXCEPT !.pc = "done", !.ret = "True"]
                ELSE Raise([wk EXCEPT !.cb_raised = TRUE])]
       /\ faultBudget' = IF o = "ok" THEN faultBudget ELSE SpendFault
  /\ UNCHANGED << netVars, ctlVars, fetch, sem, sessClosed, disk, dirs >>

\* Line 284 is logged: the task goes on to the semaphore.
WResume(w) ==
  /\ worker[w].pc = "log_resume"
  /\ LET r == Enter(worker[w], w[1])
     IN  /\ worker' = [worker EXCEPT ![w] = r]
         /\ sem' = Take(r, w[1])
  /\ UNCHANGED << netVars, ctlVars, fetch, faultBudget, sessClosed, disk, dirs >>

\* A faulty variant: the gate is passed without a free permit.
WAcquireNoGate(w) ==
  /\ worker[w].pc = "wait_sem"
  /\ worker' = [worker EXCEPT ![w] =
                  [@ EXCEPT !.pc = "get", !.holds = TRUE, !.reqs = @ + 1]]
  /\ sem' = [sem EXCEPT ![w[1]].value = @ - 1]
  /\ UNCHANGED << netVars, ctlVars, fetch, faultBudget, sessClosed, disk, dirs >>

\* A waiting task gets a permit that was given back.
WAcquire(w) ==
  /\ worker[w].pc = "wait_sem"
  /\ sem[w[1]].value > 0
  /\ LET r == Enter(worker[w], w[1])
     IN  /\ worker' = [worker EXCEPT ![w] = r]
         /\ sem' = Take(r, w[1])
  /\ UNCHANGED << netVars, ctlVars, fetch, faultBudget, sessClosed, disk, dirs >>

\* What the server may answer to the download request: the request raises; a
\* status >= 400; 200 with the whole file; 206 with the file from the offset
\* of the Range header on (with a header, and an offset inside the file);
\* each with or without a content-length.
RespOutcomes ==
  {<< "error", FALSE >>, << "http_error", FALSE >>}
    \cup ({"full", "partial"} \X BOOLEAN)

RespFails(o) == o[1] \in {"error", "http_error"}

RespPossible(wk, o) ==
  o[1] = "partial" => (wk.range >= 0 /\ wk.range < wk.entry.url.len)

\* Lines 304-315: raise_for_status, content_length, total_size; then the
\* log and aiofiles.open.
RespResult(wk, o) ==
  IF RespFails(o) THEN Fail([wk EXCEPT !.faulted = TRUE])
  ELSE
    LET body == IF o[1] = "partial" THEN wk.entry.url.len - wk.range
                ELSE wk.entry.url.len
        content_length == IF o[2] THEN body ELSE 0
        total == content_length + wk.downloaded_size
    IN  [wk EXCEPT !.pc = "open", !.left = body,
                   !.status = IF o[1] = "partial" THEN 206 ELSE 200,
                   !.total_size = IF total = 0 /\ wk.entry.size > 0
                                  THEN wk.entry.size ELSE total]

WResp(w) ==
  /\ worker[w].pc = "get"
  /\ \E o \in RespOutcomes :
       /\ RespPossible(worker[w], o)
       /\ sessClosed[w[1]] => o[1] = "error"
       /\ (RespFails(o) /\ ~sessClosed[w[1]]) => FaultAllowed
       /\ worker' = [worker EXCEPT ![w] = RespResult(@, o)]
       /\ faultBudget' = IF RespFails(o) /\ ~sessClosed[w[1]]
                         THEN SpendFault ELSE faultBudget
  /\ UNCHANGED << netVars, ctlVars, fetch, sem, sessClosed, disk, dirs >>

\* aiofiles.open(full_path, mode): "wb" creates or truncates, "ab" creates.
WOpen(w) ==
  /\ worker[w].pc = "open"
  /\ \E o \in {"ok", "open_raises"} :
       /\ o # "ok" => FaultAllowed
       /\ LET wk == worker[w]
          IN  IF o = "ok"
              THEN /\ worker' = [worker EXCEPT ![w] =
                                   [wk EXCEPT !.pc = "read", !.touched = TRUE]]
                   /\ disk' = IF wk.mode = "wb" \/ ~Exists(wk.path)
                              THEN WriteFile(disk, wk.path, 0) ELSE disk
              ELSE /\ worker' = [worker EXCEPT ![w] = Fail([wk EXCEPT !.faulted = TRUE])]
                   /\ disk' = disk
       /\ faultBudget' = IF o = "ok" THEN faultBudget ELSE SpendFault
  /\ UNCHANGED << netVars, ctlVars, fetch, sem, sessClosed, dirs >>

\* "async for chunk in response.content.iter_chunked(chunk_size)": the next
\* chunk, or the end of the body, then the file is closed and the final
\* callback (total, total) made (lines 329-332); or the read raises.
WRead(w) ==
  /\ worker[w].pc = "read"
  /\ \E o \in {"data", "read_raises", "callback_raises"} :
       /\ (o # "data" /\ ~(o = "read_raises" /\ sessClosed[w[1]])) => FaultAllowed
       /\ o = "callback_raises" => worker[w].left = 0
       /\ LET wk == worker[w]
              n  == Min(chunk_size, wk.left)
          IN  worker' = [worker EXCEPT ![w] =
                IF o # "data"
                THEN Fail([wk EXCEPT !.faulted = TRUE,
                                     !.cb_raised = (o = "callback_raises")])
                ELSE IF wk.left > 0
                THEN [wk EXCEPT !.pc = "write", !.chunk = n, !.left = @ - n]
                ELSE [Callback(wk, wk.total_size, wk.total_size)
                        EXCEPT !.pc = "log_end", !.pending = TRUE]]
       /\ faultBudget' = IF o # "data" /\ ~(o = "read_raises" /\ sessClosed[w[1]])
                         THEN SpendFault ELSE faultBudget
  /\ UNCHANGED << netVars, ctlVars, fetch, sem, sessClosed, disk, dirs >>

\* A faulty variant: progress is reported one chunk late.
ProgressDueLate(update_counter) == update_counter % ProgressEvery = 1

\* "if update_counter % 50 == 0"
ProgressDue(update_counter) == update_counter % ProgressEvery = 0

\* "await f.write(chunk)" and lines 322-327.
WWrite(w) ==
  /\ worker[w].pc = "write"
  /\ \E o \in {"ok", "write_raises", "callback_raises"} :
       /\ o # "ok" => FaultAllowed
       /\ o = "callback_raises" => ProgressDue(worker[w].update_counter + 1)
       /\ LET wk == worker[w]
              w1 == [wk EXCEPT !.current_downloaded = @ + wk.chunk,
                               !.update_counter = @ + 1, !.chunk = 0]
              written == WriteFile(disk, wk.path, SizeOf(wk.path) + wk.chunk)
          IN  IF o = "write_raises"
              THEN /\ worker' = [worker EXCEPT ![w] =
                                   Fail([wk EXCEPT !.chunk = 0, !.faulted = TRUE])]
                   /\ disk' = disk
              ELSE /\ disk' = IF Exists(wk.path) THEN written
                              ELSE WriteFile(disk, wk.path, wk.chunk)
                   /\ worker' = [worker EXCEPT ![w] =
                        IF o = "callback_raises"
                        THEN Fail([w1 EXCEPT !.faulted = TRUE, !.cb_raised = TRUE])
                        ELSE IF ProgressDue(w1.update_counter)
                        THEN [Callback(w1, w1.current_downloaded, w1.total_size)
                                EXCEPT !.pc = "read"]
                        ELSE [w1 EXCEPT !.pc = "read"]]
       /\ faultBudget' = IF o = "ok" THEN faultBudget ELSE SpendFault
  /\ UNCHANGED << netVars, ctlVars, fetch, sem, sessClosed, dirs >>

\* After the last log: the return, which leaves "async with semaphore".
WEnd(w) ==
  /\ worker[w].pc = "log_end"
  /\ worker' = [worker EXCEPT ![w] =
                  [@ EXCEPT !.pc = "done", !.holds = FALSE,
                            !.ret = IF worker[w].pending THEN "True" ELSE "False"]]
  /\ sem' = [sem EXCEPT ![w[1]].value = @ + 1]
  /\ UNCHANGED << netVars, ctlVars, fetch, faultBudget, sessClosed, disk, dirs >>

WorkerStep(w) ==
  \/ WStart(w)
  \/ WSkip(w)
  \/ WResume(w)
  \/ WResp(w)
  \/ WOpen(w)
  \/ WRead(w)
  \/ WWrite(w)
  \/ WEnd(w)

\* The caller invokes the transfer on the same entry again.
Reinvoke(w) ==
  /\ worker[w].pc = "done"
  /\ worker[w].run < MaxRuns
  /\ worker' = [worker EXCEPT ![w] =
                  [NewWorker(@.rj_id, @.entry) EXCEPT !.run = worker[w].run + 1,
                                                      !.prev = worker[w].ret]]
  /\ UNCHANGED << netVars, ctlVars, fetch, faultBudget, sem, sessClosed, disk, dirs >>

\* --------------------------------------------------------- job orchestrator

\* The second component get_work_info_async returns: the work title alone
\* (marker ""), or a message, by the title it embeds and its marker.
NoMessage == [title |-> << >>, marker |-> "none"]

\* A faulty variant: the messages leave the title out.
ResolveMessageNoTitle(work_title, marker) == [title |-> << >>, marker |-> marker]

\* f"{work_title} (...)" of lines 216 and 226, and work_title of line 229.
ResolveMessage(work_title, marker) == [title |-> work_title, marker |-> marker]

\* Line 206: the message has no title in it.
NotFound == [title |-> << >>, marker |-> "not_found"]

\* The orchestrator task before process_bulk_download_job(rj_ids, callback).
\* jret[j] is what the j-th call of process_download_job ended with, bret
\* what the batch returned: for the properties.  files and selected_indices
\* are kept as long as the code reads them.
IdleOrch(rj_ids) ==
  [ pc |-> "b_idle", rj_ids |-> rj_ids, i |-> 0, success_count |-> 0,
    files |-> << >>, selected_indices |-> {},
    jret |-> [j \in Jobs |-> "none"], bret |-> "none",
    \* history, for the properties: what the batch's resolve of work j
    \* returned ("empty" or "files"), the rj_ids process_download_job was
    \* called with, the calls of overall_progress_callback made by the
    \* batch itself as << current_index, kind >>, and the final message as
    \* << success_count, total_works >>
    bres |-> [j \in Jobs |-> "none"], invoked |-> << >>, bcbs |-> << >>,
    final |-> << >>,
    \* who called process_download_job ("batch", or "direct" for a host that
    \* calls it itself), and how many entries the running call has selected
    \* (-1 before it has)
    caller |-> "batch", nsel |-> -1,
    \* work_title of get_work_info_async, and the message a direct call of
    \* it returned beside the files
    work_title |-> << >>, rmsg |-> NoMessage,
    \* the arguments of a call of recursively_transform_data_v2 by itself,
    \* and the index it returned
    data |-> << >>, index_start |-> 0, next |-> 0,
    \* the size argument of a call of search_work_async, what the API holds
    \* for the keyword (whether its body has "works", and totalCount), and
    \* what the call returned: where its results are from and total_pages
    size |-> 0, has_works |-> FALSE, totalCount |-> << 0, 0 >>,
    sret |-> [results |-> "none", total_pages |-> << 0, 0 >>],
    \* the id in the url path that get_work_info_async has built last
    path_id |-> << >>,
    \* what load_config() returned to the running call of
    \* process_download_job: at line 219 of its get_work_info_async, and at
    \* line 363 (no output_dir: not loaded)
    filter_config |-> [DefaultConfig EXCEPT !.output_dir = ""],
    job_config |-> [DefaultConfig EXCEPT !.output_dir = ""] ]

\* Before recursively_transform_data_v2(data, [], [], index_start, config).
FlattenCall(data, index_start) ==
  [IdleOrch(<< >>) EXCEPT !.pc = "f_idle", !.caller = "flatten",
                          !.data = data, !.index_start = index_start]

\* rj_id.replace('RJ', '') of lines 201 and 211.
PathId(rj_id) == Replace(rj_id, << "R", "J" >>, << >>)

\* handle_get_info of the host: full_rj_id, made of the text typed in.
full_rj_id(rj_id) ==
  << "R", "J" >> \o Replace(Strip(Upper(rj_id)), << "R", "J" >>, << >>)

\* The orchestrator task before a host calls get_work_info_async(rj_id)
\* itself.
DirectResolve(rj_id) ==
  [IdleOrch(<< rj_id >>) EXCEPT !.pc = "r_idle", !.i = 1, !.caller = "resolve"]

\* The orchestrator task before a host calls
\* process_download_job(rj_id, selected_indices, callback) itself.
DirectJob(rj_id, selected_indices) ==
  [IdleOrch(<< rj_id >>) EXCEPT !.pc = "j_idle", !.i = 1, !.caller = "direct",
                                !.selected_indices = selected_indices]

\* overall_progress_callback(current_index, total_works, message), the
\* message by its kind.
BatchCallback(o, current_index, kind) ==
  [o EXCEPT !.bcbs = Append(@, << current_index, kind >>)]

\* A faulty variant: the job succeeds when some transfer succeeded.
JobResultAny(results) ==
  IF \E k \in 1 .. Len(results) : results[k] = "True" THEN "True" ELSE "False"

\* Lines 382-386: success_count == len(selected_files).
JobResult(results) ==
  LET success_count == Cardinality({k \in 1 .. Len(results) : results[k] = "True"})
  IN  IF success_count = Len(results) THEN "True" ELSE "False"

WorkersOf(j) == {w \in Workers : w[1] = j /\ worker[w].pc # "none"}

\* The orchestrator has taken the value its fetch returned.
FetchTaken == fetch' = [fetch EXCEPT ![Orch] = IdleFetch]

\* The tasks of the works before the next one that have ended are gone with
\* the gather that made them; a task still running stays.
Collected(j) ==
  [w \in Workers |->
     IF w[1] <= j /\ worker[w].pc = "done" THEN NoWorker ELSE worker[w]]

\* The head of "for i, rj_id in enumerate(rj_ids)" with the orchestrator in
\* state o: the next work is resolved (get_work_info_async up to its first
\* request), or the loop is over and the batch returns (lines 465-468).
NextWork(o) ==
  /\ worker' = Collected(o.i)
  /\ IF o.i < Len(o.rj_ids)
     THEN /\ orch' = [o EXCEPT !.i = @ + 1, !.pc = "b_res_info", !.nsel = -1,
                                !.work_title = << >>,
                                !.path_id = PathId(o.rj_ids[o.i + 1])]
          /\ StartFetch(Orch, "workInfo", DefaultMaxRetries)
     ELSE /\ orch' = [o EXCEPT !.pc = "b_done", !.nsel = -1,
                        !.work_title = << >>,
                        !.final = << o.success_count, Len(o.rj_ids) >>,
                        !.bret = IF o.success_count = Len(o.rj_ids)
                                 THEN "True" ELSE "False"]
          /\ FetchTaken

\* Lines 401-418: the batch is called.
BStart ==
  /\ orch.pc = "b_idle"
  /\ IF orch.rj_ids = << >>
     THEN /\ orch' = [orch EXCEPT !.pc = "b_done", !.bret = "False"]
          /\ UNCHANGED << fetch, worker >>
     ELSE NextWork(BatchCallback(orch, 0, "found"))
  /\ UNCHANGED << netVars, faultBudget, sem, sessClosed, disk, dirs, config >>

\* process_download_job ends, returning ret or raising ("raised"), and the
\* batch goes on to "await asyncio.sleep(1)" (lines 448-463).
JobEnds(ret) ==
  IF orch.caller = "direct"
  THEN [orch EXCEPT !.pc = "j_done", !.jret[orch.i] = ret,
                    !.files = << >>,
                    !.filter_config = IdleOrch(<< >>).filter_config,
                    !.job_config = IdleOrch(<< >>).job_config]
  ELSE
  [BatchCallback(orch, orch.i,
                 CASE ret = "True" -> "ok" [] ret = "False" -> "failed"
                   [] OTHER -> "error")
     EXCEPT !.pc = "b_sleep", !.jret[orch.i] = ret,
            !.files = << >>, !.selected_indices = {},
            !.filter_config = IdleOrch(<< >>).filter_config,
            !.job_config = IdleOrch(<< >>).job_config,
            !.success_count = IF ret = "True" THEN @ + 1 ELSE @]

\* Lines 363-381: the output directory, the session, the semaphore and the
\* tasks of gather, one per selected file.
Launch(selected_files, o) ==
  /\ o # "ok" => FaultAllowed
  /\ faultBudget' = IF o = "ok" THEN faultBudget ELSE SpendFault
  /\ IF o = "mkdir_raises"
     THEN /\ orch' = [JobEnds("raised") EXCEPT !.nsel = Len(selected_files)]
          /\ UNCHANGED << worker, sem, dirs >>
     ELSE LET rj_id == orch.rj_ids[orch.i]
          IN  /\ orch' = [orch EXCEPT !.pc = "j_gather", !.files = << >>,
                                      !.selected_indices =
                                         IF orch.caller = "direct" THEN @ ELSE {},
                                      !.nsel = Len(selected_files),
                                      !.job_config = config]
              /\ dirs' = dirs \cup {BaseDir(rj_id)}
              /\ sem' = [sem EXCEPT ![orch.i] =
                           Semaphore(config.max_concurrent_downloads)]
              /\ worker' = [w \in Workers |->
                    IF w[1] = orch.i /\ w[2] <= Len(selected_files)
                    THEN NewWorker(rj_id, selected_files[w[2]])
                    ELSE worker[w]]

\* A faulty variant: an empty selection is launched like any other.
JobResolvedNoFailFast(files) ==
  LET selected_files ==
        SelectSeq(files, LAMBDA f : f.index \in orch.selected_indices)
  IN  /\ \E o \in {"ok", "mkdir_raises"} : Launch(selected_files, o)
      /\ FetchTaken

\* get_work_info_async has returned files to process_download_job: lines
\* 357-381.
JobResolved(files) ==
  LET selected_files ==
        SelectSeq(files, LAMBDA f : f.index \in orch.selected_indices)
  IN  IF selected_files = << >>
      THEN /\ orch' = [JobEnds("False") EXCEPT !.nsel = 0]
           /\ FetchTaken
           /\ UNCHANGED << faultBudget, worker, sem, dirs >>
      ELSE /\ \E o \in {"ok", "mkdir_raises"} : Launch(selected_files, o)
           /\ FetchTaken

\* process_download_job(rj_id, selected_indices, work_progress_callback) is
\* called from the batch in state o: lines 352-355, up to the first request.
CallJob(o, files) ==
  /\ orch' = [BatchCallback(o, o.i, "downloading")
                EXCEPT !.pc = "j_res_info", !.files = files,
                       !.invoked = Append(@, o.rj_ids[o.i]),
                       !.path_id = PathId(o.rj_ids[o.i]),
                       !.selected_indices =
                          {files[k].index : k \in 1 .. Len(files)}]
  /\ StartFetch(Orch, "workInfo", DefaultMaxRetries)
  /\ UNCHANGED worker

\* A faulty variant: a work without files is handed to the job all the same.
BatchResolvedNoSkip(files) ==
  /\ CallJob([orch EXCEPT !.bres[orch.i] =
                            IF files = << >> THEN "empty" ELSE "files"], files)
  /\ UNCHANGED << faultBudget, sem, dirs >>

\* get_work_info_async has returned files to the batch: lines 420-448, up to
\* the first request of process_download_job's own get_work_info_async.
BatchResolved(files) ==
  /\ IF files = << >>
     THEN NextWork(BatchCallback([orch EXCEPT !.bres[orch.i] = "empty"],
                                 orch.i, "skipped"))
     ELSE CallJob([orch EXCEPT !.bres[orch.i] = "files"], files)
  /\ UNCHANGED << faultBudget, sem, dirs >>

\* get_work_info_async has returned (files, msg) to a host that called it.
ResolveReturned(files, msg) ==
  /\ orch' = [orch EXCEPT !.pc = "r_done", !.files = files, !.rmsg = msg]
  /\ UNCHANGED << fetch, faultBudget, worker, sem, dirs >>

\* get_work_info_async returns files to process_download_job, through the
\* exit of "async with aiohttp.ClientSession()": the list, and the
\* configuration as it was loaded for the filter.
JobGotFiles(files) ==
  /\ orch' = [orch EXCEPT !.pc = "j_resolved", !.files = files,
                          !.filter_config = config]
  /\ FetchTaken
  /\ UNCHANGED << faultBudget, worker, sem, dirs >>

\* get_work_info_async returns (files, msg) to its caller; the batch and
\* the job take the files.
Resolved(files, msg) ==
  CASE orch.pc \in {"b_res_info", "b_res_tracks"} -> BatchResolved(files)
    [] orch.pc \in {"j_res_info", "j_res_tracks"} -> JobGotFiles(files)
    [] OTHER -> ResolveReturned(files, msg)

\* process_download_job goes on with the list it got: lines 357-381.
JobSelect ==
  /\ orch.pc = "j_resolved"
  /\ JobResolved(orch.files)
  /\ UNCHANGED << netVars, sessClosed, disk, config >>

\* save_config of the host, called from a handler that the host runs on a
\* thread of its own: the configuration file is written anew, with one of
\* two settings of the HQ flag, the limit and the output directory.
SaveConfig ==
  /\ \E hq \in BOOLEAN :
       config' = [config EXCEPT !.hq_audio_only = hq,
                                !.max_concurrent_downloads =
                                   IF hq THEN 1 ELSE MaxConcurrent,
                                !.output_dir = IF hq THEN "Other" ELSE "Downloads"]
  /\ config' # config
  /\ UNCHANGED << netVars, fetch, faultBudget, worker, sem, sessClosed, disk,
                  dirs, orch >>

\* get_work_info_async, lines 202-212: the work metadata has been fetched.
ResolveInfo ==
  /\ orch.pc \in {"b_res_info", "j_res_info", "r_res_info"}
  /\ fetch[Orch].pc = "done"
  /\ LET work_data == fetch[Orch].result
     IN  IF work_data = Null \/ ~work_data.hasTitle
         THEN Resolved(<< >>, NotFound)
         ELSE /\ orch' = [orch EXCEPT !.work_title = work_data.title,
                                      !.path_id = PathId(orch.rj_ids[orch.i]),
                                      !.pc = CASE @ = "b_res_info" -> "b_res_tracks"
                                               [] @ = "j_res_info" -> "j_res_tracks"
                                               [] OTHER -> "r_res_tracks"]
              /\ StartFetch(Orch, "tracks", DefaultMaxRetries)
              /\ UNCHANGED << faultBudget, worker, sem, dirs >>
  /\ UNCHANGED << netVars, sessClosed, disk, config >>

\* get_work_info_async, lines 214-229: the file tree has been fetched.
ResolveTracks ==
  /\ orch.pc \in {"b_res_tracks", "j_res_tracks", "r_res_tracks"}
  /\ fetch[Orch].pc = "done"
  /\ LET tracks_data == fetch[Orch].result
     IN  IF tracks_data = Null
         THEN Resolved(<< >>, ResolveMessage(orch.work_title, "tracks_failed"))
         ELSE LET all_files == recursively_transform_data_v2(
                                 tracks_data.tree, << >>, << >>, 1, config).files
              IN  Resolved(all_files,
                           ResolveMessage(orch.work_title,
                                          IF all_files = << >> THEN "no_match"
                                          ELSE ""))
  /\ UNCHANGED << netVars, sessClosed, disk, config >>

\* "results = await asyncio.gather(*download_tasks)": a task has raised, and
\* gather hands the exception on at once; the other tasks go on running.
\* The exception leaves "async with aiohttp.ClientSession()", which closes
\* the session, and process_download_job; the batch catches it (line 458).
GatherRaises ==
  /\ orch.pc = "j_gather"
  /\ \E w \in WorkersOf(orch.i) : worker[w].ret = "raised"
  /\ orch' = JobEnds("raised")
  /\ sessClosed' = [sessClosed EXCEPT ![orch.i] = TRUE]
  /\ UNCHANGED << netVars, fetch, faultBudget, worker, sem, disk, dirs, config >>

\* gather returns the results of all the tasks: lines 382-386.
GatherReturns ==
  /\ orch.pc = "j_gather"
  /\ \A w \in WorkersOf(orch.i) :
       worker[w].pc = "done" /\ worker[w].ret # "raised"
  /\ LET n == Cardinality(WorkersOf(orch.i))
         results == [k \in 1 .. n |-> worker[<< orch.i, k >>].ret]
     IN  orch' = JobEnds(JobResult(results))
  /\ sessClosed' = [sessClosed EXCEPT ![orch.i] = TRUE]
  /\ UNCHANGED << netVars, fetch, faultBudget, worker, sem, disk, dirs, config >>

\* "await asyncio.sleep(1)" is over: the next work.
BSleepDone ==
  /\ orch.pc = "b_sleep"
  /\ NextWork(orch)
  /\ UNCHANGED << netVars, faultBudget, sem, sessClosed, disk, dirs, config >>

\* A host calls process_download_job itself: lines 352-355, up to the first
\* request.
JStart ==
  /\ orch.pc = "j_idle"
  /\ orch' = [orch EXCEPT !.pc = "j_res_info",
                          !.invoked = Append(@, orch.rj_ids[orch.i]),
                          !.path_id = PathId(orch.rj_ids[orch.i])]
  /\ StartFetch(Orch, "workInfo", DefaultMaxRetries)
  /\ UNCHANGED << netVars, faultBudget, worker, sem, sessClosed, disk, dirs, config >>

\* A host calls get_work_info_async itself: lines 196-202, up to the first
\* request.
RStart ==
  /\ orch.pc = "r_idle"
  /\ orch' = [orch EXCEPT !.pc = "r_res_info",
                          !.path_id = PathId(orch.rj_ids[orch.i])]
  /\ StartFetch(Orch, "workInfo", DefaultMaxRetries)
  /\ UNCHANGED << netVars, faultBudget, worker, sem, sessClosed, disk, dirs, config >>

\* recursively_transform_data_v2 runs: all_files and the returned index.
Flatten ==
  /\ orch.pc = "f_idle"
  /\ LET r == recursively_transform_data_v2(orch.data, << >>, << >>,
                                            orch.index_start, config)
     IN  orch' = [orch EXCEPT !.pc = "f_done", !.files = r.files, !.next = r.next]
  /\ UNCHANGED << netVars, fetch, faultBudget, worker, sem, sessClosed, disk,
                  dirs, config >>

\* ------------------------------------------------------------------ search

\* An integer of Python is a pair << hi, lo >> that stands for
\* hi * 2^26 + lo, with 0 <= lo < 2^26; integers below 2^54 are modelled.
PyInt(hi, lo) == << hi, lo >>

\* Lines 504-505: ceil(totalCount / size) if totalCount and size > 0 else 0.
\* "/" is the true division of two integers: the double nearest to the
\* exact quotient, ties to the even significand, a significand having 53
\* bits; ceil() of that double is an integer again.  For size < 32.
total_pages(totalCount, size) ==
  IF totalCount = PyInt(0, 0) \/ size <= 0 THEN PyInt(0, 0)
  ELSE
    LET \* the exact quotient is q + r / size, with q = << qh, ql >>
        qh == totalCount[1] \div size
        t  == (totalCount[1] % size) * 2^26 + totalCount[2]
        ql == t \div size
        r  == t % size
        \* the bits of the significand that are left for the fraction: q has
        \* 53 - f bits (f = 4 stands for 4 or more, f = -1 for q >= 2^53)
        f  == CASE qh < 2^23 -> 4
                [] qh < 2^24 -> 3
                [] qh < 2^25 -> 2
                [] qh < 2^26 -> 1
                [] qh < 2^27 -> 0
                [] OTHER     -> -1
        \* ceil(double) - q
        d  == CASE f >= 1 ->
                     \* the fraction is rounded to a multiple of 2^-f, and
                     \* to zero when it is at most half of that
                     IF r * 2^(f + 1) > size THEN 1 ELSE 0
                [] f = 0 ->
                     \* the double is an integer: q or q + 1
                     IF 2 * r > size \/ (2 * r = size /\ ql % 2 = 1) THEN 1 ELSE 0
                [] OTHER ->
                     \* the double is an even integer
                     IF ql % 2 = 0 THEN 0
                     ELSE IF r > 0 \/ (ql \div 2) % 2 = 1 THEN 1 ELSE -1
    IN  IF ql + d = 2^26 THEN PyInt(qh + 1, 0) ELSE PyInt(qh, ql + d)

\* Before a host calls search_work_async(keyword, page, size), the API
\* holding a body for the keyword.
SearchCall(size, has_works, totalCount) ==
  [IdleOrch(<< >>) EXCEPT !.pc = "s_idle", !.caller = "search", !.size = size,
                          !.has_works = has_works, !.totalCount = totalCount]

\* search_work_async, lines 478-497: the log, then the request.
SStart ==
  /\ orch.pc = "s_idle"
  /\ orch' = [orch EXCEPT !.pc = "s_fetch"]
  /\ StartFetch(Orch, "search", DefaultMaxRetries)
  /\ UNCHANGED << netVars, faultBudget, worker, sem, sessClosed, disk, dirs, config >>

\* search_work_async, lines 499-519: the fetch has returned r.
SearchReturned ==
  /\ orch.pc = "s_fetch"
  /\ fetch[Orch].pc = "done"
  /\ LET r == fetch[Orch].result
     IN  orch' = [orch EXCEPT
           !.pc = "s_done",
           !.sret = IF r = Null \/ ~orch.has_works
                    THEN [results |-> "empty", total_pages |-> PyInt(0, 0)]
                    ELSE [results |-> "works",
                          total_pages |-> total_pages(orch.totalCount, orch.size)]]
  /\ UNCHANGED << netVars, fetch, faultBudget, worker, sem, sessClosed, disk,
                  dirs, config >>

OrchStep ==
  \/ BStart
  \/ ResolveInfo
  \/ ResolveTracks
  \/ JobSelect
  \/ GatherRaises
  \/ GatherReturns
  \/ BSleepDone

\* ------------------------------------------- specification of the fetcher

InitNet ==
  /\ API_INDEX = 0
  /\ BASE_URLS = BASE_URLS_INIT
  /\ fetch = [c \in Callers |-> IdleFetch]

InitNoDownload ==
  /\ worker = [w \in Workers |-> NoWorker]
  /\ sem = [j \in Jobs |-> Semaphore(0)]
  /\ sessClosed = [j \in Jobs |-> FALSE]
  /\ disk = << >>
  /\ dirs = {}
  /\ orch = IdleOrch(<< >>)
  /\ config = DefaultConfig

InitFetch ==
  /\ InitNet
  /\ InitNoDownload
  /\ faultBudget = Budget(-1, -1)

NextFetch ==
  \E c \in Clients :
    \/ ClientCall(c)
    \/ FetchStep(c)
    \/ ClientReturn(c)

SpecFetch == InitFetch /\ [][NextFetch]_vars

\* The same clients, calling with the default max_retries, while one of the
\* endpoints is healthy and the others answer as they please.
InitHealthy ==
  /\ InitNet
  /\ InitNoDownload
  /\ \E h \in 0 .. Len(BASE_URLS_INIT) - 1 :
       faultBudget = [Budget(-1, -1) EXCEPT !.healthy = h]

NextHealthy ==
  \E c \in Clients :
    \/ FetchCall(c, "search", DefaultMaxRetries)
    \/ FetchStep(c)
    \/ ClientReturn(c)

SpecHealthy == InitHealthy /\ [][NextHealthy]_vars

\* ----------------------------------- specification of one transfer worker

\* download_worker is invoked on one entry, with a semaphore of its own; the
\* entry's expected size, the length of the file on the server and the file
\* on disk (none, or of any size) are arbitrary; the entry is at the top of
\* the tree, in a folder D1 or in the folder D1 of a folder D0.
TheWorker == << 1, 1 >>
TheRjId == << "R", "J", "1" >>
TheName == << "t", ".", "m", "p", "3" >>

InitTransfer ==
  /\ InitNet
  /\ faultBudget = Budget(-1, -1)
  /\ sem = [j \in Jobs |-> Semaphore(IF j = 1 THEN 1 ELSE 0)]
  /\ sessClosed = [j \in Jobs |-> FALSE]
  /\ dirs = {}
  /\ orch = IdleOrch(<< >>)
  /\ config = DefaultConfig
  /\ \E E \in 0 .. MaxSize, n \in 0 .. MaxSize, S \in -1 .. MaxSize,
        folder_path \in { << >>, << "D", "1" >>, << "D", "0", "/", "D", "1" >> } :
       LET f == FileInfo(1, Node("audio", TheName, E, [len |-> n], FALSE, << >>),
                         folder_path)
       IN  /\ worker = [w \in Workers |->
                          IF w = TheWorker THEN NewWorker(TheRjId, f) ELSE NoWorker]
           /\ disk = IF S < 0 THEN << >>
                     ELSE WriteFile(<< >>, full_path(TheRjId, f), S)

NextTransfer ==
  \/ WorkerStep(TheWorker)
  \/ Reinvoke(TheWorker)

SpecTransfer == InitTransfer /\ [][NextTransfer]_vars

\* ------------------------- specification of one transfer of a long file

\* Sizes of ProgressEvery - 1, ProgressEvery and 2 * ProgressEvery + 1
\* chunks.
LongSizes == {c * chunk_size : c \in {ProgressEvery - 1, ProgressEvery,
                                      2 * ProgressEvery + 1}}

\* download_worker is invoked once on an entry of a long file; the file is
\* absent, or there with 1 byte or with all expected bytes.
InitStream ==
  /\ InitNet
  /\ faultBudget = Budget(-1, -1)
  /\ sem = [j \in Jobs |-> Semaphore(IF j = 1 THEN 1 ELSE 0)]
  /\ sessClosed = [j \in Jobs |-> FALSE]
  /\ dirs = {}
  /\ orch = IdleOrch(<< >>)
  /\ config = DefaultConfig
  /\ \E E \in LongSizes, n \in LongSizes :
     \E S \in {-1, 1, E} :
       LET f == FileInfo(1, Node("audio", TheName, E, [len |-> n], FALSE, << >>), << >>)
       IN  /\ worker = [w \in Workers |->
                          IF w = TheWorker THEN NewWorker(TheRjId, f) ELSE NoWorker]
           /\ disk = IF S < 0 THEN << >>
                     ELSE WriteFile(<< >>, full_path(TheRjId, f), S)

NextStream == WorkerStep(TheWorker)

SpecStream == InitStream /\ [][NextStream]_vars

\* ------------------------------------------- specification of the batch

\* process_bulk_download_job is called on a list of works, with a
\* concurrency limit from the configuration; the API fails at will, the
\* file system, the downloads and the callbacks at most MaxFaults times.
WorkIds == << << "R", "J", "1" >>, << "R", "J", "2" >>, << "R", "J", "3" >> >>

\* A file an earlier run has left on disk, whole or in part: the one file of
\* TreeOne, for the first work.
OldFile == full_path(WorkIds[1], FileInfo(1, TreeOne[1], << >>))

InitBatch ==
  /\ InitNet
  /\ faultBudget = Budget(-1, MaxFaults)
  /\ worker = [w \in Workers |-> NoWorker]
  /\ sem = [j \in Jobs |-> Semaphore(0)]
  /\ sessClosed = [j \in Jobs |-> FALSE]
  /\ dirs = {}
  /\ disk \in {<< >>} \cup {WriteFile(<< >>, OldFile, S) : S \in 0 .. 1}
  /\ \E n \in 0 .. MaxWorks : orch = IdleOrch(SubSeq(WorkIds, 1, n))
  /\ \E L \in 1 .. MaxConcurrent :
       config = [DefaultConfig EXCEPT !.max_concurrent_downloads = L]

NextBatch ==
  \/ OrchStep
  \/ FetchStep(Orch)
  \/ \E w \in Workers : WorkerStep(w) \/ WAcquire(w)

SpecBatch == InitBatch /\ [][NextBatch]_vars

\* ------------------------------------- specification of one job, called
\* by a host directly

\* process_download_job is called on the first work with any selection of
\* indices, one beyond the longest file list included.
InitJob ==
  /\ InitNet
  /\ faultBudget = Budget(-1, MaxFaults)
  /\ worker = [w \in Workers |-> NoWorker]
  /\ sem = [j \in Jobs |-> Semaphore(0)]
  /\ sessClosed = [j \in Jobs |-> FALSE]
  /\ dirs = {}
  /\ disk \in {<< >>} \cup {WriteFile(<< >>, OldFile, S) : S \in 0 .. 1}
  /\ \E sel \in SUBSET (1 .. MaxFiles + 1) : orch = DirectJob(WorkIds[1], sel)
  /\ \E L \in 1 .. MaxConcurrent :
       config = [DefaultConfig EXCEPT !.max_concurrent_downloads = L]

NextJob ==
  \/ JStart
  \/ ResolveInfo
  \/ ResolveTracks
  \/ JobSelect
  \/ GatherRaises
  \/ GatherReturns
  \/ FetchStep(Orch)
  \/ \E w \in Workers : WorkerStep(w) \/ WAcquire(w)

SpecJob == InitJob /\ [][NextJob]_vars

\* The same job when the event loop keeps running what can run: every
\* request is answered or fails, every task that can take a step takes it.
FairJob == SpecJob /\ WF_vars(NextJob)

\* process_download_job(rj_id, {1, 2}, cb) at line 357, when its
\* get_work_info_async has returned the list of a work with two files at the
\* top: two names that differ in one character, or the same name with and
\* without a folder.
InitClash ==
  /\ InitNet
  /\ faultBudget = Budget(-1, MaxFaults)
  /\ worker = [w \in Workers |-> NoWorker]
  /\ sem = [j \in Jobs |-> Semaphore(0)]
  /\ sessClosed = [j \in Jobs |-> FALSE]
  /\ dirs = {}
  /\ disk = << >>
  /\ \E L \in 1 .. MaxConcurrent :
       config = [DefaultConfig EXCEPT !.max_concurrent_downloads = L]
  /\ \E c \in {":", "?", "_"} :
       LET first  == FileNode("audio", << "a", ".", "m", "p", "3" >>, 1)
           second == FileNode("audio", << "a", c, "m", "p", "3" >>, 1)
       IN  \E data \in { << first, second >>,
                         << FolderNode(<< "D", "1" >>, << first >>), second >> } :
             orch = [DirectJob(WorkIds[1], {1, 2})
                       EXCEPT !.pc = "j_resolved", !.path_id = PathId(WorkIds[1]),
                              !.filter_config = config,
                              !.files = recursively_transform_data_v2(
                                          data, << >>, << >>, 1, config).files]

SpecClash ==
  InitClash /\ [][\/ JobSelect
                  \/ GatherRaises
                  \/ GatherReturns
                  \/ \E w \in Workers : WorkerStep(w) \/ WAcquire(w)]_vars

\* The same job, while the host saves the configuration at any moment.
NextSave ==
  \/ NextJob
  \/ SaveConfig

SpecSave == InitJob /\ [][NextSave]_vars

\* ---------------------------- specification of one resolve, called by a
\* host directly

\* The allowed kinds of the configurations tried.
KindSets == { {"audio", "image", "text"}, {"image"}, {"text"} }

InitResolve ==
  /\ InitNet
  /\ faultBudget = Budget(-1, -1)
  /\ worker = [w \in Workers |-> NoWorker]
  /\ sem = [j \in Jobs |-> Semaphore(0)]
  /\ sessClosed = [j \in Jobs |-> FALSE]
  /\ disk = << >>
  /\ dirs = {}
  \* the id of work 1 as it may be written; get_work_info_async is called
  \* with it as it is, or by handle_get_info of the host
  /\ \E rj_id \in { WorkIds[1], << "r", "j", "1" >>, << "R", "j", "1" >>, << "1" >> } :
       \/ orch = DirectResolve(rj_id)
       \/ orch = [DirectResolve(full_rj_id(rj_id)) EXCEPT !.caller = "handler"]
  /\ \E kinds \in KindSets, hq \in BOOLEAN :
       config = [DefaultConfig EXCEPT !.default_file_types = kinds,
                                      !.hq_audio_only = hq]

NextResolve ==
  \/ RStart
  \/ ResolveInfo
  \/ ResolveTracks
  \/ FetchStep(Orch)

SpecResolve == InitResolve /\ [][NextResolve]_vars

\* ------------------------------------ specification of the tree flattener

\* Files: audio with and without an HQ suffix, in either case, of 1 byte, of
\* exactly 50 MiB and of one byte more; an image; a node without type
\* and one of a kind that is never allowed.
TestLeaves ==
  { FileNode("audio", << "a", ".", "m", "p", "3" >>, 1),
    FileNode("audio", << "B", ".", "F", "L", "A", "C" >>, 1),
    FileNode("audio", << "b", ".", "o", "g", "g" >>, 0),
    FileNode("audio", << "b", ".", "o", "g", "g" >>, 1),
    FileNode("audio", << "b", ".", "o", "g", "g" >>, 50 * 1024 * 1024),
    FileNode("audio", << "b", ".", "o", "g", "g" >>, 50 * 1024 * 1024 + 1),
    FileNode("image", << "c", ".", "j", "p", "g" >>, 1),
    FileNode("", << "n" >>, 1),
    FileNode("video", << "v" >>, 1) }

\* Leaves; folders D1 and D2 of up to two files, or without children; and a
\* folder that holds a folder and a file after it.
TestNodes ==
  LET few == { FileNode("audio", << "a", ".", "m", "p", "3" >>, 1),
               FileNode("audio", << "b", ".", "o", "g", "g" >>, 1),
               FileNode("image", << "c", ".", "j", "p", "g" >>, 1) }
      kids == {<< >>} \cup {<< x >> : x \in few} \cup {<< x, y >> : x \in few, y \in few}
      names == { << "D", "1" >>, << "D", "2" >> }
  IN  TestLeaves
        \cup {FolderNode(t, c) : t \in names, c \in kids}
        \cup {Node("folder", t, 0, [len |-> 0], FALSE, << >>) : t \in names}
        \cup {FolderNode(<< "D", "0" >>,
                 << FolderNode(<< "D", "1" >>,
                      << FileNode("audio", << "a", ".", "m", "p", "3" >>, 1) >>),
                    FileNode("image", << "c", ".", "j", "p", "g" >>, 1) >>)}

\* Trees of up to two nodes at the top.
TestTrees ==
  {<< >>} \cup {<< x >> : x \in TestNodes} \cup {<< x, y >> : x \in TestNodes, y \in TestNodes}

InitFlatten ==
  /\ InitNet
  /\ faultBudget = Budget(-1, -1)
  /\ worker = [w \in Workers |-> NoWorker]
  /\ sem = [j \in Jobs |-> Semaphore(0)]
  /\ sessClosed = [j \in Jobs |-> FALSE]
  /\ disk = << >>
  /\ dirs = {}
  /\ \E data \in TestTrees, k \in 1 .. MaxStart : orch = FlattenCall(data, k)
  /\ \E kinds \in KindSets, hq \in BOOLEAN :
       config = [DefaultConfig EXCEPT !.default_file_types = kinds,
                                      !.hq_audio_only = hq]

NextFlatten == Flatten

SpecFlatten == InitFlatten /\ [][NextFlatten]_vars

\* --------------------------------------------------- batch: properties

CallbacksOf(j) == SelectSeq(orch.bcbs, LAMBDA c : c[1] = j)

\* C11: a work whose resolve returned no files is never handed to
\* process_download_job, gets the one callback "skipped", is not counted,
\* and the batch has gone on; process_download_job has been called once
\* for each other work reached, in list order; a returned batch has
\* reached every work.
C11_EmptyWorkIsSkipped ==
  LET reached == [j \in 1 .. orch.i |-> j]
      withFiles == SelectSeq(reached, LAMBDA j : orch.bres[j] = "files")
  IN  /\ \A j \in Jobs :
           orch.bres[j] = "empty" =>
             /\ orch.jret[j] = "none"
             /\ WorkersOf(j) = {}
             /\ CallbacksOf(j) = << << j, "skipped" >> >>
             /\ orch.i > j \/ orch.pc = "b_done"
      /\ orch.invoked = [k \in 1 .. Len(withFiles) |-> orch.rj_ids[withFiles[k]]]
      /\ orch.success_count <= Len(withFiles)
      /\ (orch.pc = "b_done" /\ orch.rj_ids # << >>) =>
           \A j \in 1 .. Len(orch.rj_ids) : orch.bres[j] # "none"

\* A batch of two works has returned: the first was skipped, the second
\* went to process_download_job and succeeded.
C11_Witness ==
  /\ orch.pc = "b_done"
  /\ orch.bres[1] = "empty" /\ orch.bres[2] = "files"
  /\ orch.invoked = << WorkIds[2] >>
  /\ orch.jret[2] = "True"


\* C12: a returned batch has reported "X / N" with X the number of works
\* whose process_download_job returned True and N the length of the list,
\* and has returned True exactly when X = N.
C12_SummaryCountsSuccesses ==
  orch.pc = "b_done" =>
    LET X == Cardinality({j \in Jobs : orch.jret[j] = "True"})
        N == Len(orch.rj_ids)
    IN  /\ orch.final = << X, N >>
        /\ orch.bret = "True" <=> X = N

\* C25: the batch goes from one work to the resolve of the next only out
\* of the pause of line 463.
C25_PauseBetweenWorks ==
  [][(orch.caller = "batch" /\ orch.i >= 1 /\ orch'.i = orch.i + 1)
       => orch.pc = "b_sleep"]_vars

\* C26: every progress event of a transfer that the batch passes on carries
\* the position of the work the transfer belongs to; and the positions the
\* batch callback is called with never decrease and never exceed the number
\* of works.
C26_EventsCarryTheirWork ==
  /\ \A w \in Workers : worker[w].cb_index \in {0, w[1]}
  /\ \A w \in Workers : worker[w].cb_index <= Len(orch.rj_ids)
  /\ \A k \in 1 .. Len(orch.bcbs) :
       /\ orch.bcbs[k][1] <= Len(orch.rj_ids)
       /\ k > 1 => orch.bcbs[k - 1][1] <= orch.bcbs[k][1]

\* C27: while a call of process_download_job runs its transfers, the
\* configuration it limited them by and took the output directory from is
\* the one its file list was filtered with.
C27_OneConfigSnapshot ==
  orch.pc = "j_gather" => orch.job_config = orch.filter_config

\* C28: a call of process_download_job with a limit of at least 1 returns
\* in the end; a transfer that waits at the gate passes it in the end; and
\* once the call is over no transfer holds a permit: all permits are free.
C28_JobReturnsPermitsFree ==
  /\ (orch.pc = "j_idle") ~> (orch.pc = "j_done" /\ orch.jret[1] \in {"True", "False"})
  /\ \A w \in Workers : (worker[w].pc = "wait_sem") ~> (worker[w].pc # "wait_sem")
  /\ [](orch.pc = "j_done" =>
          /\ sem[1].value = sem[1].limit
          /\ \A w \in Workers : ~worker[w].holds)

\* C29: two transfers of one call of process_download_job never have the
\* same file open for writing at the same time.
C29_NoSharedTarget ==
  \A w1 \in Workers, w2 \in Workers :
    (/\ w1 # w2 /\ w1[1] = w2[1]
     /\ worker[w1].pc \in {"read", "write"}
     /\ worker[w2].pc \in {"read", "write"})
    => worker[w1].path # worker[w2].path

\* C30: when a direct call of process_download_job returns True, every
\* index of its selected_indices is the index of an entry of the fresh list
\* whose transfer returned True.
C30_TrueCoversSelection ==
  (orch.caller = "direct" /\ orch.pc = "j_done" /\ orch.jret[1] = "True")
  => \A k \in orch.selected_indices :
       \E w \in Workers :
         /\ w[1] = 1 /\ worker[w].pc = "done" /\ worker[w].ret = "True"
         /\ worker[w].entry.index = k

\* C31: in the progress callbacks of one invocation of download_worker the
\* bytes reported never exceed the total reported with them, and never
\* decrease from one callback to the next.
C31_ProgressWithinTotal ==
  \A w \in Workers :
    LET cbs == worker[w].cbs
    IN  /\ \A k \in 1 .. Len(cbs) : cbs[k][1] <= cbs[k][2]
        /\ \A k \in 1 .. Len(cbs) - 1 : cbs[k][1] <= cbs[k + 1][1]

\* C13: a call of process_download_job that selected no entry of the fresh
\* file list has returned False, has created no directory, has launched no
\* worker and no download request has been made.
C13_EmptySelectionFailsFast ==
  orch.nsel = 0 =>
    /\ orch.pc = "j_done"
    /\ orch.jret[orch.i] = "False"
    /\ dirs = {}
    /\ \A w \in Workers : worker[w].pc = "none" /\ worker[w].reqs = 0

\* A direct call has selected nothing from the fresh list and has returned
\* False, with no directory made and no worker launched.
C13_Witness ==
  /\ orch.nsel = 0
  /\ orch.jret[1] = "False"
  /\ orch.invoked = << WorkIds[1] >>
  /\ dirs = {}
  /\ \A w \in Workers : worker[w].pc = "none"

C15_ResolveFailuresAreValues ==
  LET f == fetch[Orch]
      flat == recursively_transform_data_v2(f.result.tree, << >>, << >>, 1, config).files
  IN  /\ orch.pc = "r_res_tracks" => orch.work_title = TheTitle
      /\ orch.pc = "r_done" =>
           CASE f.path = "workInfo" ->
                  /\ f.result = Null \/ ~f.result.hasTitle
                  /\ orch.files = << >>
                  /\ orch.rmsg = [title |-> << >>, marker |-> "not_found"]
             [] f.path = "tracks" /\ f.result = Null ->
                  /\ orch.files = << >>
                  /\ orch.rmsg = [title |-> TheTitle, marker |-> "tracks_failed"]
             [] OTHER ->
                  /\ orch.files = flat
                  /\ orch.rmsg = [title |-> TheTitle,
                                  marker |-> IF flat = << >> THEN "no_match" ELSE ""]

\* The file-tree fetch has failed after the metadata was found: no files,
\* and a message with the title.
C15_Witness ==
  /\ orch.pc = "r_done"
  /\ fetch[Orch].path = "tracks" /\ fetch[Orch].result = Null
  /\ orch.files = << >>
  /\ orch.rmsg.title = TheTitle

\* ----------------------------------------------- specification of search

\* totalCount: small counts, and counts around 2^53, where the doubles are
\* the even integers, and 20 * 2^49 + 1.
TestCounts ==
  { PyInt(0, n) : n \in {0, 1, 19, 20, 21, 40, 45, 60} }
    \cup { PyInt(2^27 - 1, 2^26 - 1), PyInt(2^27, 0), PyInt(2^27, 1), PyInt(2^27, 2),
           PyInt(2^27, 3), PyInt(20 * 2^23, 1) }

TestSizes == {-1, 0, 1, 2, 3, 20}

InitSearch ==
  /\ InitNet
  /\ faultBudget = Budget(DefaultMaxRetries, 0)
  /\ worker = [w \in Workers |-> NoWorker]
  /\ sem = [j \in Jobs |-> Semaphore(0)]
  /\ sessClosed = [j \in Jobs |-> FALSE]
  /\ disk = << >>
  /\ dirs = {}
  /\ config = DefaultConfig
  /\ \E size \in TestSizes, has_works \in BOOLEAN, totalCount \in TestCounts :
       orch = SearchCall(size, has_works, totalCount)

NextSearch ==
  \/ SStart
  \/ SearchReturned
  \/ FetchStep(Orch)

SpecSearch == InitSearch /\ [][NextSearch]_vars

\* C24: the url paths of get_work_info_async, for the work metadata and for
\* the file tree, hold the decimal digits of the id and nothing else,
\* however the "RJ" of the id it is called with is written.
C24_PathsHoldDigitsOnly ==
  orch.pc \in {"r_res_info", "r_res_tracks", "r_done"}
    => \A k \in 1 .. Len(orch.path_id) :
         orch.path_id[k] \in {"0", "1", "2", "3", "4", "5", "6", "7", "8", "9"}

\* --------------------------------------------------- flattener: properties

\* C16: the entries appended are the admitted files of the tree in
\* pre-order, they have the indices k, k+1, ..., k+m-1, and k+m is
\* returned: folders, nodes of a kind that is not allowed or without type,
\* and audio the HQ filter rejects take no index.
C16_ContiguousPreOrderIndices ==
  orch.pc = "f_done" =>
    LET Admits(x) ==
          /\ x.type # "folder"
          /\ x.type \in config.default_file_types
          /\ (config.hq_audio_only /\ x.type = "audio")
               => (is_hq(x.title) \/ is_hq_by_size(x))
        RECURSIVE Pre(_)
        Pre(t) ==
          IF t = << >> THEN << >>
          ELSE LET x == Head(t)
               IN  (IF x.type = "folder" THEN Pre(x.children)
                    ELSE IF Admits(x) THEN << << x.title, x.size >> >>
                    ELSE << >>) \o Pre(Tail(t))
        k == orch.index_start
        m == Len(orch.files)
    IN  /\ [i \in 1 .. m |-> << orch.files[i].filename, orch.files[i].size >>]
             = Pre(orch.data)
        /\ \A i \in 1 .. m : orch.files[i].index = k + i - 1
        /\ orch.next = k + m

\* From index 2 on, a tree of a folder of two files, one rejected by the HQ
\* filter, and a file after it: two entries, 2 and 3, and 4 returned.
C16_Witness ==
  /\ orch.pc = "f_done" /\ orch.index_start = 2
  /\ config.hq_audio_only
  /\ Len(orch.data) = 2 /\ orch.data[1].type = "folder"
  /\ Len(orch.data[1].children) = 2
  /\ Len(orch.files) = 2
  /\ orch.files[1].index = 2 /\ orch.files[2].index = 3
  /\ orch.next = 4

\* C17: a single file of an allowed kind is admitted exactly when HQ-only
\* is off, or it is not audio, or its name ends in .flac, .wav or .mp3
\* whatever the case of the letters, or it has more than 50 MiB.
C17_HqFilter ==
  (/\ orch.pc = "f_done"
   /\ Len(orch.data) = 1
   /\ orch.data[1].type \in config.default_file_types)
    => LET x == orch.data[1]
           low == Lower(x.title)
       IN  Len(orch.files) = 1
             <=> \/ ~config.hq_audio_only
                 \/ x.type # "audio"
                 \/ EndsWith(low, << ".", "f", "l", "a", "c" >>)
                 \/ EndsWith(low, << ".", "w", "a", "v" >>)
                 \/ EndsWith(low, << ".", "m", "p", "3" >>)
                 \/ x.size > 52428800

\* With HQ-only on, B.FLAC of 1 byte has been admitted.
C17_Witness ==
  /\ orch.pc = "f_done" /\ config.hq_audio_only
  /\ Len(orch.data) = 1
  /\ orch.data[1].title = << "B", ".", "F", "L", "A", "C" >>
  /\ Len(orch.files) = 1

\* C18: the folder_path of every entry is the titles of the folders above
\* it, from the top down, joined by "/", and empty for a file at the top; a
\* folder's path reaches neither a sibling folder nor a file after it, and
\* a folder without children gives no entry.
C18_FolderPathIsAncestors ==
  orch.pc = "f_done" =>
    LET Admits(x) ==
          /\ x.type \in config.default_file_types
          /\ (config.hq_audio_only /\ x.type = "audio")
               => (is_hq(x.title) \/ is_hq_by_size(x))
        RECURSIVE PathsOf(_, _)
        PathsOf(t, above) ==
          IF t = << >> THEN << >>
          ELSE LET x == Head(t)
                   below == IF above = << >> THEN x.title
                            ELSE above \o << "/" >> \o x.title
               IN  (IF x.type = "folder"
                    THEN IF x.hasChildren THEN PathsOf(x.children, below) ELSE << >>
                    ELSE IF Admits(x) THEN << above >>
                    ELSE << >>) \o PathsOf(Tail(t), above)
    IN  [i \in 1 .. Len(orch.files) |-> orch.files[i].folder_path]
          = PathsOf(orch.data, << >>)

\* The file under D0/D1 and the file after D1 in D0.
C18_Witness ==
  /\ orch.pc = "f_done" /\ orch.index_start = 1
  /\ Len(orch.files) = 2
  /\ orch.files[1].index = 1
  /\ orch.files[1].folder_path = << "D", "0", "/", "D", "1" >>
  /\ orch.files[2].folder_path = << "D", "0" >>

\* ------------------------------------------------------ search: properties

\* C19: when the search has returned results, total_pages is the least
\* integer p with p * size >= totalCount for size >= 1, and 0 for
\* size <= 0 or totalCount = 0.
C19_TotalPagesIsCeiling ==
  (orch.pc = "s_done" /\ orch.sret.results = "works") =>
    LET n == orch.size
        c == orch.totalCount
        p == orch.sret.total_pages
        Times(x) == LET lo == x[2] * n
                    IN  << x[1] * n + lo \div 2^26, lo % 2^26 >>
        Pred(x) == IF x[2] = 0 THEN << x[1] - 1, 2^26 - 1 >> ELSE << x[1], x[2] - 1 >>
        Less(x, y) == x[1] < y[1] \/ (x[1] = y[1] /\ x[2] < y[2])
    IN  IF n <= 0 \/ c = << 0, 0 >> THEN p = << 0, 0 >>
        ELSE /\ ~Less(Times(p), c)
             /\ p # << 0, 0 >>
             /\ Less(Times(Pred(p)), c)

\* ------------------------------------------------------ fetcher: properties

Streaming(w) == worker[w].pc \in {"get", "open", "read", "write"}

\* C1: while a transfer worker launched for a work is still running, no
\* resolve request and no download request of a later work is in flight.
C1_StrictlySequential ==
  \A w \in Workers :
    Running(w) =>
      /\ ~(orch.i > w[1] /\ fetch[Orch].pc = "get")
      /\ \A v \in Workers : v[1] > w[1] => worker[v].pc # "get"

\* C2: of the workers of one process_download_job call, at most as many as
\* the semaphore has permits are between their download request and the end
\* of the response body, and a worker whose request is out holds a permit.
C2_AtMostLimitStreaming ==
  \A j \in Jobs :
    /\ Cardinality({w \in WorkersOf(j) : Streaming(w)}) <= sem[j].limit
    /\ \A w \in WorkersOf(j) : Streaming(w) => worker[w].holds

\* With a limit of 1, one worker streams the body while the other waits at
\* the semaphore.
C2_Witness ==
  \E j \in Jobs :
    /\ sem[j].limit = 1
    /\ worker[<< j, 1 >>].pc = "wait_sem"
    /\ worker[<< j, 2 >>].pc = "write"

\* C3: when process_download_job has returned a boolean after launching
\* workers, every worker it launched has finished, and the boolean is True
\* exactly when every one of them returned True.
C3_TrueIffAllTrue ==
  (/\ orch.pc = "b_sleep"
   /\ orch.jret[orch.i] \in {"True", "False"}
   /\ WorkersOf(orch.i) # {})
    => /\ \A w \in WorkersOf(orch.i) : worker[w].pc = "done"
       /\ orch.jret[orch.i] = "True"
            <=> \A w \in WorkersOf(orch.i) : worker[w].ret = "True"

\* Of two workers one returned True and one False: the job returned False.
C3_Witness ==
  /\ orch.pc = "b_sleep"
  /\ orch.jret[orch.i] = "False"
  /\ worker[<< orch.i, 1 >>].ret = "True"
  /\ worker[<< orch.i, 2 >>].ret = "False"

\* C4: a transfer that found the file with 0 <= S < E bytes, of a file the
\* server has E bytes of, and returned True, asked for the range from S,
\* appended, and left E bytes on disk.
C4_ResumeEndsAtExpected ==
  \A w \in Workers :
    LET wk == worker[w] IN
    (/\ wk.pc = "done" /\ wk.ret = "True"
     /\ 0 <= wk.size0 /\ wk.size0 < wk.entry.size
     /\ wk.entry.url.len = wk.entry.size)
      => /\ wk.range = wk.size0
         /\ wk.mode = "ab"
         /\ SizeOf(wk.path) = wk.entry.size

\* C22: the first step of a transfer, when no call of it raises, decides
\* by the target's presence, its size S and the expected size E alone:
\* absent, the file is written from zero and no range is asked for;
\* S = E > 0, the transfer is complete and makes no request; S < E, the
\* file is appended to and the range "bytes=S-" is asked for; otherwise the
\* file is deleted and written from zero with no range.  The decision stands
\* for the rest of the invocation, which issues at most one request.
C22_ResumeDecision ==
  [][\A w \in Workers :
       LET wk == worker[w]
           wn == worker'[w]
           S  == SizeOf(wk.path)
           E  == wk.entry.size
       IN  /\ (wk.pc = "new" /\ wn.pc # "new" /\ wn.ret # "raised") =>
                CASE S < 0 ->
                       /\ wn.mode = "wb" /\ wn.range = -1 /\ wn.downloaded_size = 0
                       /\ disk' = disk
                  [] S = E /\ E > 0 ->
                       /\ wn.pc = "log_skip" /\ wn.reqs = 0
                       /\ disk' = disk
                  [] S >= 0 /\ S < E ->
                       /\ wn.mode = "ab" /\ wn.range = S /\ wn.downloaded_size = S
                       /\ disk' = disk
                  [] OTHER ->
                       /\ wn.mode = "wb" /\ wn.range = -1 /\ wn.downloaded_size = 0
                       /\ ~(wk.path \in DOMAIN disk')
           /\ (wk.pc \notin {"none", "new"} /\ wn.pc \notin {"none", "new"}) =>
                /\ wn.mode = wk.mode /\ wn.range = wk.range
                /\ wk.pc = "log_skip" => wn.reqs = 0
           /\ wn.reqs <= 1
    ]_vars

\* A file longer than expected has been deleted and is asked for again from
\* zero, with no range.
C22_Witness ==
  LET wk == worker[TheWorker] IN
  /\ wk.pc = "get" /\ wk.reqs = 1
  /\ wk.size0 > wk.entry.size /\ wk.entry.size > 0
  /\ wk.mode = "wb" /\ wk.range = -1
  /\ ~Exists(wk.path)

\* C23: a transfer stores its file as many directory levels below the
\* work's directory as the entry's folder_path has segments.
C23_NestedFoldersKept ==
  \A w \in Workers :
    LET wk == worker[w]
        RECURSIVE Segments(_, _)
        \* the non-empty parts of str between separators, cur being the part
        \* that is being read
        Segments(str, cur) ==
          IF str = << >> THEN (IF cur = << >> THEN 0 ELSE 1)
          ELSE IF Head(str) = "/"
               THEN (IF cur = << >> THEN 0 ELSE 1) + Segments(Tail(str), << >>)
               ELSE Segments(Tail(str), Append(cur, Head(str)))
    IN  wk.pc # "none"
          => Segments(wk.path[2], << >>) = Segments(wk.entry.folder_path, << >>)

\* C5: a transfer that found the file with exactly the expected E > 0 bytes,
\* and met no failure, has made no request, has left the file as it was, has
\* made the one callback (E, E) and has returned True.
C5_CompleteFileIsSkipped ==
  \A w \in Workers :
    LET wk == worker[w] IN
    (/\ wk.pc = "done" /\ ~wk.faulted
     /\ wk.entry.size > 0 /\ wk.size0 = wk.entry.size)
      => /\ wk.ret = "True"
         /\ wk.reqs = 0
         /\ ~wk.touched
         /\ SizeOf(wk.path) = wk.entry.size
         /\ wk.cbs = << << wk.entry.size, wk.entry.size >> >>

\* The second invocation, after a first that downloaded the file and
\* returned True, has skipped it.
C5_Witness ==
  LET wk == worker[TheWorker] IN
  /\ wk.pc = "done" /\ wk.run = 2 /\ wk.prev = "True"
  /\ wk.entry.size = MaxSize /\ wk.size0 = wk.entry.size
  /\ wk.ret = "True" /\ wk.reqs = 0 /\ Len(wk.cbs) = 1

\* C9: every ended invocation of download_worker has returned a boolean.
C9_WorkerReturnsBoolean ==
  \A w \in Workers :
    worker[w].pc = "done" => worker[w].ret \in {"True", "False"}

\* C10: no call of process_download_job ends with an exception that reaches
\* its caller.
C10_JobNeverRaises ==
  \A j \in Jobs : orch.jret[j] # "raised"

\* C6: a fetch that ran with no other fetch in flight and whose every attempt
\* failed has issued exactly max_retries requests, returns None, and leaves
\* API_INDEX at (index at the call + max_retries) mod the number of endpoints.
C6_AllFailRotatesMaxTimes ==
  \A c \in Callers :
    (fetch[c].pc = "done" /\ fetch[c].idx0 >= 0 /\ fetch[c].fails = fetch[c].reqs)
      => /\ fetch[c].reqs = fetch[c].max
         /\ fetch[c].result = Null
         /\ API_INDEX = (fetch[c].idx0 + fetch[c].max) % Len(BASE_URLS)

\* A lone fetch of 3 attempts that started at index 2 has wrapped to index 1.
C6_Witness ==
  \E c \in Clients :
    /\ fetch[c].pc = "done" /\ fetch[c].idx0 = 2 /\ fetch[c].max = 3
    /\ fetch[c].fails = 3 /\ fetch[c].result = Null /\ API_INDEX = 1

\* C20: whenever no fetch is in flight, API_INDEX is the index the module
\* starts with, 0, advanced once for every attempt that has failed in any
\* fetch so far, modulo the number of endpoints: no advance is lost to the
\* interleaving of the fetches.
C20_NoLostRotation ==
  (\A c \in Callers : ~Active(c))
    => API_INDEX = (0 + faultBudget.api_faults) % Len(BASE_URLS)

\* Two fetches that ran at the same time have returned, one after two failed
\* attempts and one after one, and the index is at 3.
C20_Witness ==
  /\ \A c \in Clients : fetch[c].pc = "done" /\ fetch[c].idx0 = -1
  /\ fetch[1].fails = 2 /\ fetch[2].fails = 1
  /\ faultBudget.api_faults = 3
  /\ API_INDEX = 3

\* C21: with one endpoint healthy and max_retries at least the number of
\* endpoints, every fetch that has returned has returned a body, whether it
\* ran alone or with another fetch in flight.
C21_HealthyEndpointIsFound ==
  \A c \in Clients :
    (fetch[c].pc = "done" /\ fetch[c].max >= Len(BASE_URLS))
      => fetch[c].result # Null

\* C7: API_INDEX is always an index of the endpoint list, and the list keeps
\* its initial contents and order.
C7_IndexInRange ==
  /\ API_INDEX \in 0 .. Len(BASE_URLS) - 1
  /\ BASE_URLS = BASE_URLS_INIT

\* Two fetches in flight at once, both having rotated, the index wrapped to 0.
C7_Witness ==
  /\ \A c \in Clients : Active(c) /\ fetch[c].rots >= 2
  /\ API_INDEX = 0

\* C8 as stated: once an attempt has received a 200, the fetch returns that
\* body at once: no further request, no rotation, no pause.
C8_Original ==
  \A c \in Callers :
    fetch[c].had200 =>
      /\ fetch[c].pc \in {"json", "done"}
      /\ fetch[c].pc = "done" => fetch[c].result # Null
      /\ fetch[c].rots = fetch[c].reqs - 1

\* C8 as amended: once an attempt has received a 200 and its body has been
\* read and parsed, the fetch has returned that body: the attempt was the
\* k-th request of the call and the last, and the call has rotated the
\* endpoint k-1 times, once per failed attempt.
C8_ParsedBodyReturnedAtOnce ==
  \A c \in Callers :
    fetch[c].parsed =>
      /\ fetch[c].pc = "done"
      /\ fetch[c].result \in Bodies(fetch[c].path)
      /\ fetch[c].had200
      /\ fetch[c].reqs = fetch[c].attempt
      /\ fetch[c].fails = fetch[c].reqs - 1
      /\ fetch[c].rots = fetch[c].reqs - 1

\* The third attempt of a call is the first whose body parses.
C8_Witness ==
  \E c \in Clients : fetch[c].parsed /\ fetch[c].reqs = 3 /\ fetch[c].max = 4

====
